---- MODULE Spec2Model ----
(***************************************************************************)
(* Dead-code engine of scripts/checks/deadcode/checker.py: the dependency  *)
(* graph, the direct-dead pass, the fixed-point propagation and the        *)
(* file / folder roll-up of one run_all_checks call.                       *)
(*                                                                         *)
(* A project is a finite map from file ids to abstract source files.  A    *)
(* file path is a record [form, id]: form "src" is the path as the glob of *)
(* src_path = Path("src") yields it (relative, the key of file_cache),     *)
(* form "abs" is the same file after Path.resolve().  A symbol key         *)
(* f"{path}:{name}" is the pair <<path, name>>.                            *)
(*                                                                         *)
(* Spec and SpecAlias take lines 1233-1243 as one step; SpecPool follows   *)
(* the thread pool of the same lines task by task, on trees in which at    *)
(* most one file fails.                                                    *)
(*                                                                         *)
(* FileAnalysis is taken with the fields _analyze_file passes to it        *)
(* (checker.py:684-693).  shared/typescript_parser.py is not part of the   *)
(* sources; the four extract operators follow the SourceExtractor contract *)
(* of the specification (section 4.1).                                     *)
(***************************************************************************)
EXTENDS Integers, Sequences, FiniteSets, Bags, TLC

\* ---------------------------------------------------------------- bounds
MaxDepth == 3        \* longest re-export chain between origin and importer
MaxLocals == 3       \* most unexported functions behind one exported entry
MaxLibFiles == 3     \* most files in the library folder
MaxPoolFiles == 5    \* most files handed to the worker pool one by one
MaxChainFiles == 11  \* most files importing one from the other in a row
MaxCycleFiles == 3   \* the same when the first file holds a cycle
MaxEdges == 3        \* most edges a caller of DependencyGraph adds

\* ------------------------------------------------------ abstract sources
NoSpec == [kind |-> "none", target |-> 0]
SpecTo(k, t) == [kind |-> k, target |-> t]

Decl(n, exp, refs) ==
  [name |-> n, exported |-> exp, symbol_type |-> "function", refs |-> refs]

\* `export default <expression>`: an export named default, no local symbol
DefaultExport ==
  [name |-> "default", exported |-> TRUE, symbol_type |-> "default",
   refs |-> {}]

Imp(n, orig, t, s) ==
  [name |-> n, original_name |-> orig, import_type |-> t, from_path |-> s]

ReExp(n, orig, s) == [name |-> n, original_name |-> orig, from_path |-> s]

SourceFile(d, b, decls, reexports, wildcards, imports, top) ==
  [dir |-> d, base |-> b, readable |-> TRUE, raises |-> FALSE,
   ignored |-> FALSE, decls |-> decls, reexports |-> reexports, wildcards |-> wildcards,
   imports |-> imports, top |-> top]

\* ------------------------------------------------------------ path model
SrcPath(f) == [form |-> "src", id |-> f]
AbsPath(f) == [form |-> "abs", id |-> f]
NoPath == [form |-> "none", id |-> 0]
Key(p, n) == <<p, n>>
FileKey(p) == <<p, "__file__">>

\* -------------------------------------------------------- SourceExtractor
keywords ==
  {"import", "export", "from", "const", "let", "var", "function", "class",
   "interface", "type", "if", "else", "for", "while", "return", "true",
   "false", "null", "undefined", "string", "number", "boolean", "object",
   "async", "await", "new", "this", "super", "extends", "implements"}

extract_exports(src, p) ==
  {[name |-> d.name, file_path |-> p, export_type |-> d.symbol_type,
    is_reexport |-> FALSE, from_path |-> NoSpec, original_name |-> ""] :
      d \in {x \in src.decls : x.exported}}
  \cup {[name |-> r.name, file_path |-> p, export_type |-> "named",
         is_reexport |-> TRUE, from_path |-> r.from_path,
         original_name |-> r.original_name] : r \in src.reexports}
  \cup {[name |-> "*", file_path |-> p, export_type |-> "wildcard",
         is_reexport |-> TRUE, from_path |-> w, original_name |-> ""] :
           w \in src.wildcards}

extract_imports(src, p) ==
  {[name |-> i.name, from_path |-> i.from_path, file_path |-> p,
    import_type |-> i.import_type, original_name |-> i.original_name] :
      i \in src.imports}

\* DeadCodeChecker._extract_imports, the extractor checker.py itself holds:
\* the test of line 410 looks for ' as ' in the name after line 400 has cut
\* it down to the alias, so no record carries an original name
_extract_imports(src, p) ==
  {[name |-> i.name, from_path |-> i.from_path, file_path |-> p,
    import_type |-> i.import_type, original_name |-> ""] :
      i \in src.imports}

extract_symbols(src, p) ==
  {[name |-> d.name, file_path |-> p, symbol_type |-> d.symbol_type,
    is_exported |-> d.exported] :
      d \in {x \in src.decls : x.symbol_type # "default"}}

\* every identifier-like token of the text, minus the keyword list
find_symbol_usage(src) ==
  ({d.name : d \in src.decls}
   \cup UNION {d.refs : d \in src.decls}
   \cup {r.name : r \in src.reexports}
   \cup {r.original_name : r \in {x \in src.reexports : x.original_name # ""}}
   \cup {i.name : i \in src.imports}
   \cup {i.original_name : i \in {x \in src.imports : x.original_name # ""}}
   \cup src.top) \ keywords

\* the outcome of a task that ended with an exception other than the two
\* _analyze_file catches
Raised == [exception |-> "uncaught"]

EmptyAnalysis(p) ==
  [path |-> p, exports |-> {}, imports |-> {}, symbols |-> {},
   used_symbols |-> {}, interface_implementations |-> {}]

_analyze_file(src, p) ==
  IF ~src.readable THEN EmptyAnalysis(p)
  ELSE IF src.raises THEN Raised
  ELSE   [path |-> p,
          exports |-> extract_exports(src, p),
          imports |-> extract_imports(src, p),
          symbols |-> extract_symbols(src, p),
          used_symbols |-> find_symbol_usage(src),
          interface_implementations |-> {}]

\* --------------------------------------------------------------- projects
\* origin file 1 declares `a`; files 2..d+1 re-export it one from the other;
\* file d+2 imports it from the last re-exporter
ReexportFiles(d, mode, kind, imp, extra) ==
  LET nm == IF mode = "alias" /\ d >= 1 THEN "z" ELSE "a"
  IN [f \in 1..(d + 2) |->
       IF f = 1
         THEN SourceFile("src", "plain",
                {Decl("a", TRUE, {})}
                  \cup (IF extra THEN {Decl("b", TRUE, {})} ELSE {}),
                {}, {}, {}, {})
       ELSE IF f <= d + 1
         THEN SourceFile("src", "plain", {},
                IF mode = "named" THEN {ReExp("a", "", SpecTo(kind, f - 1))}
                ELSE IF mode = "alias"
                  THEN {ReExp("z", IF f = 2 THEN "a" ELSE "",
                              SpecTo(kind, f - 1))}
                ELSE {},
                IF mode = "wildcard" THEN {SpecTo(kind, f - 1)} ELSE {},
                {}, {})
       ELSE SourceFile("src", "plain", {}, {}, {},
              IF imp = "named"
                THEN {Imp(nm, "", "named", SpecTo(kind, d + 1))}
                ELSE {Imp("ns", "", "namespace", SpecTo(kind, d + 1))},
              IF imp = "named" THEN {nm} ELSE {"ns"})]

\* utils (1) <- [services (2) <-] main (last)
UsageFiles(hasUnused, layers, mainExports, kind, utilsReadable) ==
  LET utils == [SourceFile("src", "plain",
                  {Decl("used", TRUE, {})}
                    \cup (IF hasUnused THEN {Decl("unused", TRUE, {})} ELSE {}),
                  {}, {}, {}, {}) EXCEPT !.readable = utilsReadable]
      services == SourceFile("src", "plain",
                    {Decl("processData", TRUE, {"used"})}, {}, {},
                    {Imp("used", "", "named", SpecTo(kind, 1))}, {})
      callee == IF layers = 2 THEN "processData" ELSE "used"
      main == SourceFile("src", "plain",
                IF mainExports THEN {Decl("main", TRUE, {callee})} ELSE {},
                {}, {},
                {Imp(callee, "", "named", SpecTo(kind, layers))},
                IF mainExports THEN {} ELSE {callee})
  IN IF layers = 2 THEN <<utils, services, main>> ELSE <<utils, main>>

\* entry -> prefix1 -> ... -> prefixk, only the entry exported
ChainDecls(entry, prefix, k) ==
  IF k < 0 THEN {}
  ELSE {Decl(entry, TRUE, IF k >= 1 THEN {prefix \o "1"} ELSE {})}
       \cup {Decl(prefix \o ToString(i), FALSE,
                  IF i < k THEN {prefix \o ToString(i + 1)} ELSE {}) :
               i \in 1..k}

\* file 1 holds the chain of `main` (kA steps, imported by file 2) and the
\* chain of `deadChain` (kB steps, imported by nobody); -1 leaves one out
ChainFiles(kA, kB, kind) ==
  <<SourceFile("src", "plain",
      ChainDecls("main", "step", kA) \cup ChainDecls("deadChain", "deadStep", kB),
      {}, {}, {}, {}),
    SourceFile("src", "plain", {}, {}, {},
      IF kA >= 0 THEN {Imp("main", "", "named", SpecTo(kind, 1))} ELSE {},
      IF kA >= 0 THEN {"main"} ELSE {"console"})>>

LibTypes == {"dead", "live", "test", "ignored", "noexp"}

\* the library folder, and a sibling whose name only begins like it
LibDirs == {"src/lib", "src/lib2"}

\* one file of folder d; every second one carries an unexported helper
LibFile(i, t, d) ==
  LET helper == IF i % 2 = 0 THEN {Decl("helper", FALSE, {})} ELSE {}
      f == SourceFile(d, IF t = "test" THEN "test" ELSE "plain",
             IF t = "noexp" THEN {Decl("helper", FALSE, {})}
             ELSE {Decl("x", TRUE, IF helper = {} THEN {} ELSE {"helper"})}
                  \cup helper,
             {}, {}, {}, {})
  IN [f EXCEPT !.ignored = (t = "ignored")]

\* files 1..m in folder d, file m+1 directly in src imports the live ones;
\* it exports `boot` as a barrel ("barrel") or as an ordinary module nobody
\* imports ("dead"), or exports nothing ("plain")
FolderFiles(types, rootKind, d) ==
  LET m == Len(types)
      imports == {Imp("x", "", "named", SpecTo("alias", i)) :
                    i \in {j \in 1..m : types[j] = "live"}}
  IN [f \in 1..(m + 1) |->
       IF f <= m THEN LibFile(f, types[f], d)
       ELSE SourceFile("src", IF rootKind = "barrel" THEN "index" ELSE "plain",
              IF rootKind \in {"barrel", "dead"}
                THEN {Decl("boot", TRUE, {"x"})} ELSE {},
              {}, {}, imports, {"x"})]

\* file 1 exports `x`, file 2 imports it; either may be a test file, and the
\* importer may export an entry of its own
TestFiles(helperBase, importerBase, importerExports, kind) ==
  <<SourceFile("src", helperBase, {Decl("x", TRUE, {})}, {}, {}, {}, {}),
    SourceFile("src", importerBase,
      IF importerExports THEN {Decl("run", TRUE, {"x"})} ELSE {},
      {}, {}, {Imp("x", "", "named", SpecTo(kind, 1))},
      IF importerExports THEN {} ELSE {"x"})>>

\* file 1 is src/lib/index: it exports `first` and may hold an unexported
\* `local` that `first` refers to; file 2, directly in src, imports `first`
\* unless kind is "none", and may export an entry of its own
BarrelFiles(first, local, kind, importerExports) ==
  <<SourceFile("src/lib", "index",
      {Decl(first, TRUE, IF local = "" THEN {} ELSE {local})}
        \cup (IF local = "" THEN {} ELSE {Decl(local, FALSE, {})}),
      {}, {}, {}, {}),
    SourceFile("src", "plain",
      IF importerExports THEN {Decl("run", TRUE, {})} ELSE {},
      {}, {},
      IF kind = "none" THEN {} ELSE {Imp(first, "", "named", SpecTo(kind, 1))},
      IF kind = "none" THEN {"console"} ELSE {first})>>

\* file 1 is src/app/page with a default export and, if `named`, an export
\* `meta`; file 2, directly in src, imports the default export unless kind
\* is "none"
PageFiles(named, kind) ==
  <<SourceFile("src/app", "page",
      {DefaultExport} \cup (IF named THEN {Decl("meta", TRUE, {})} ELSE {}),
      {}, {}, {}, {}),
    SourceFile("src", "plain", {}, {}, {},
      IF kind = "none" THEN {}
      ELSE {Imp("Page", "", "default", SpecTo(kind, 1))},
      IF kind = "none" THEN {"console"} ELSE {"Page"})>>

\* file 1 exports `x` and, if hasY, a `y` of its own; file 2 holds
\* `import { x as y }` from file 1 and may export an entry of its own
AliasFiles(hasY, kind, importerExports) ==
  <<SourceFile("src", "plain",
      {Decl("x", TRUE, {})} \cup (IF hasY THEN {Decl("y", TRUE, {})} ELSE {}),
      {}, {}, {}, {}),
    SourceFile("src", "plain",
      IF importerExports THEN {Decl("run", TRUE, {"y"})} ELSE {},
      {}, {}, {Imp("y", "x", "named", SpecTo(kind, 1))},
      IF importerExports THEN {} ELSE {"y"})>>

\* one file, imported by nobody, that exports `inner`; the top level calls
\* it (use = "top"), an unexported `wrap` calls it (use = "local"), or
\* nothing does (use = "none")
InternalUseFiles(use) ==
  <<SourceFile("src", "plain",
      {Decl("inner", TRUE, {})}
        \cup (IF use = "local" THEN {Decl("wrap", FALSE, {"inner"})} ELSE {}),
      {}, {}, {}, IF use = "top" THEN {"inner"} ELSE {})>>

\* file 1, in src/lib, exports `a`; file 2 re-exports it; file 3, in src/app,
\* exports nothing and imports `a` from file 1 and, if viaBarrel, from file 2
\* as well. File 1 may match an exception pattern.
EntryFiles(ignored, kind, viaBarrel) ==
  <<[SourceFile("src/lib", "plain", {Decl("a", TRUE, {})}, {}, {}, {}, {})
       EXCEPT !.ignored = ignored],
    SourceFile("src/lib", "plain", {}, {ReExp("a", "", SpecTo(kind, 1))},
               {}, {}, {}),
    SourceFile("src/app", "plain", {}, {}, {},
      {Imp("a", "", "named", SpecTo(kind, 1))}
        \cup (IF viaBarrel
                THEN {Imp("a2", "a", "named", SpecTo(kind, 2))} ELSE {}),
      {"a"} \cup (IF viaBarrel THEN {"a2"} ELSE {}))>>

\* files 1 and 2 fill src/lib, each with one export nobody imports; file 3
\* is src/lib2/index with an export `type` and an unexported `object`
\* (names the keyword list holds, so the usage set never has them)
GranularityFiles(first) ==
  <<SourceFile("src/lib", "plain", {Decl(first, TRUE, {})}, {}, {}, {}, {}),
    SourceFile("src/lib", "plain", {Decl("b", TRUE, {})}, {}, {}, {}, {}),
    SourceFile("src/lib2", "index",
      {Decl("type", TRUE, {"object"}), Decl("object", FALSE, {})},
      {}, {}, {}, {})>>

SpecKinds == {"rel", "alias"}

Project(files, target) == [files |-> files, target |-> target]

ReexportProjects ==
  {Project(ReexportFiles(d, mode, kind, imp, extra), "src") :
     d \in 0..MaxDepth, mode \in {"named", "alias", "wildcard"},
     kind \in SpecKinds, imp \in {"named", "namespace"}, extra \in BOOLEAN}

UsageProjects ==
  {Project(UsageFiles(u, l, m, kind, r), "src") :
     u \in BOOLEAN, l \in 1..2, m \in BOOLEAN, kind \in SpecKinds,
     r \in BOOLEAN}

ChainProjects ==
  {Project(ChainFiles(kA, kB, kind), "src") :
     kA \in (-1)..MaxLocals, kB \in (-1)..MaxLocals, kind \in SpecKinds}

FolderProjects ==
  {Project(FolderFiles(types, rootKind, d), target) :
     types \in UNION {[1..m -> LibTypes] : m \in 0..MaxLibFiles},
     rootKind \in {"barrel", "plain", "dead"}, d \in LibDirs,
     target \in {"src", "src/lib"}}

TestProjects ==
  {Project(TestFiles(hb, ib, e, kind), "src") :
     hb \in {"plain", "test"}, ib \in {"plain", "test"}, e \in BOOLEAN,
     kind \in SpecKinds}

\* file 1 exports `x`, files 2..n import it; the read of file `bad` fails
\* (how = "unreadable") or its extraction raises (how = "raises"); bad = 0
\* leaves every file sound
PoolFiles(n, bad, how) ==
  [f \in 1..n |->
     LET src == IF f = 1
                  THEN SourceFile("src", "plain", {Decl("x", TRUE, {})},
                                  {}, {}, {}, {})
                  ELSE SourceFile("src", "plain", {}, {}, {},
                                  {Imp("x", "", "named", SpecTo("alias", 1))},
                                  {"x"})
     IN [src EXCEPT !.readable = ~(f = bad /\ how = "unreadable"),
                    !.raises = (f = bad /\ how = "raises")]]

PoolProjects ==
  {Project(PoolFiles(n, bad, how), "src") :
     n \in 1..MaxPoolFiles, bad \in 0..MaxPoolFiles,
     how \in {"unreadable", "raises"}}

\* file i of 1..m exports e<i>, which refers to the e<i-1> it imports from
\* file i-1; file m+1 imports e<m> and exports nothing.  With cyc, file 1
\* also holds an unexported p, and e1 and p refer to each other.
FileChainFiles(m, cyc) ==
  [f \in 1..(m + 1) |->
     LET prev == "e" \o ToString(f - 1)
         imports == IF f = 1 THEN {}
                    ELSE {Imp(prev, "", "named", SpecTo("alias", f - 1))}
     IN IF f <= m
          THEN SourceFile("src", "plain",
                 {Decl("e" \o ToString(f), TRUE,
                       (IF f = 1 THEN {} ELSE {prev})
                         \cup (IF f = 1 /\ cyc THEN {"p"} ELSE {}))}
                   \cup (IF f = 1 /\ cyc THEN {Decl("p", FALSE, {"e1"})} ELSE {}),
                 {}, {}, imports, {})
          ELSE SourceFile("src", "plain", {}, {}, {}, imports,
                 IF f = 1 THEN {"console"} ELSE {prev})]

FileChainProjects ==
  {Project(FileChainFiles(m, FALSE), "src") : m \in 0..MaxChainFiles}
    \cup {Project(FileChainFiles(m, TRUE), "src") : m \in 1..MaxCycleFiles}

\* `type` and `object` are legal names that the keyword list holds
BarrelProjects ==
  {Project(BarrelFiles(first, local, kind, e), "src") :
     first \in {"boot", "type"}, local \in {"", "helper", "object"},
     kind \in {"none"} \cup SpecKinds, e \in BOOLEAN}

PageProjects ==
  {Project(PageFiles(named, kind), "src") :
     named \in BOOLEAN, kind \in {"none"} \cup SpecKinds}

InternalUseProjects ==
  {Project(InternalUseFiles(use), "src") : use \in {"none", "top", "local"}}

AliasProjects ==
  {Project(AliasFiles(hasY, kind, e), "src") :
     hasY \in BOOLEAN, kind \in SpecKinds, e \in BOOLEAN}

\* the target path is all of src, or only src/app, which leaves file 1 out
EntryProjects ==
  {Project(EntryFiles(ignored, kind, viaBarrel), target) :
     ignored \in BOOLEAN, kind \in SpecKinds, viaBarrel \in BOOLEAN,
     target \in {"src", "src/app"}}

GranularityProjects ==
  {Project(GranularityFiles(first), "src") : first \in {"a", "type"}}

Projects == ReexportProjects \cup UsageProjects \cup ChainProjects
              \cup FolderProjects \cup TestProjects \cup BarrelProjects
              \cup PageProjects \cup AliasProjects \cup InternalUseProjects
              \cup EntryProjects \cup GranularityProjects

\* ----------------------------------------------------------------- state
VARIABLES
  project,           \* the files on disk and the target path of this run
  pc,                \* position in run_all_checks
  futures,           \* run_all_checks: the futures of future_to_file
  file_cache,        \* DeadCodeChecker.file_cache
  dependency_graph,  \* DeadCodeChecker.dependency_graph
  dead_files,        \* result of _detect_dead_files
  dead_folders,      \* result of _detect_dead_folders
  errors,            \* CheckResults.errors, a bag of issues
  changed,           \* find_transitive_dead_code: local `changed`
  passes,            \* find_transitive_dead_code: local `passes`
  todo               \* find_transitive_dead_code: symbols left in this pass

vars == <<project, pc, futures, file_cache, dependency_graph, dead_files,
          dead_folders, errors, changed, passes, todo>>

Files == DOMAIN project.files
Source(f) == project.files[f]
target_path == project.target

DependencyGraph ==
  [dependencies |-> [k \in {} |-> {}], dependents |-> [k \in {} |-> {}],
   all_symbols |-> {}, exported_symbols |-> {}, dead_symbols |-> {},
   transitively_dead |-> {}]

Init ==
  /\ project \in Projects
  /\ pc = "extract"
  /\ futures = [f \in {} |-> {}]
  /\ file_cache = [p \in {} |-> {}]
  /\ dependency_graph = DependencyGraph
  /\ dead_files = {}
  /\ dead_folders = {}
  /\ errors = EmptyBag
  /\ changed = TRUE
  /\ passes = 0
  /\ todo = {}

\* ------------------------------------------------------ file predicates
_is_test_file(f) == Source(f).base = "test"
_is_barrel_file(f) == Source(f).base = "index"
_is_exception(f) == Source(f).ignored

IsPrefix(a, b) == Len(a) <= Len(b) /\ SubSeq(b, 1, Len(a)) = a

\* str(path).startswith(str(self.target_path))
InTargetPath(f) == IsPrefix(target_path, Source(f).dir)

\* the path lies in the tree the glob of target_path walks
UnderTarget(f) ==
  Source(f).dir = target_path \/ IsPrefix(target_path \o "/", Source(f).dir)

_find_all_src_files == Files

_find_target_files == {f \in Files : UnderTarget(f) /\ ~_is_test_file(f)}

\* ------------------------------------------------------------ extraction
\* a future: PENDING in the work queue, RUNNING in a worker, FINISHED with the
\* value or the exception of its task
Future(state, result) == [state |-> state, result |-> result]
NoResult == [exception |-> "none"]

\* run_all_checks, lines 1233-1243, on a tree in which no task raises: every
\* file analysed and stored
AnalyzeAll ==
  /\ pc = "extract"
  /\ futures' = [f \in _find_all_src_files |->
                   Future("FINISHED", _analyze_file(Source(f), SrcPath(f)))]
  /\ file_cache' = [p \in {SrcPath(f) : f \in _find_all_src_files} |->
                      _analyze_file(Source(p.id), p)]
  /\ pc' = "build_graph"
  /\ UNCHANGED <<project, dependency_graph, dead_files, dead_folders,
                 errors, changed, passes, todo>>

\* ------------------------------------------------------- the worker pool
max_workers == 4

InState(st) == {f \in DOMAIN futures : futures[f].state = st}

\* the for loop over as_completed has yielded every future
all_completed_first == DOMAIN file_cache # {}

all_completed ==
  \A f \in _find_all_src_files : SrcPath(f) \in DOMAIN file_cache

\* executor.submit, line 1236: the files enter the work queue in list order
Submit ==
  /\ pc = "extract"
  /\ LET f == CHOOSE g \in _find_all_src_files \ DOMAIN futures :
                 \A h \in _find_all_src_files \ DOMAIN futures : g <= h
     IN /\ futures' = futures @@ (f :> Future("PENDING", NoResult))
        /\ pc' = IF DOMAIN futures' = _find_all_src_files
                   THEN "collect" ELSE "extract"
  /\ UNCHANGED <<project, file_cache, dependency_graph, dead_files,
                 dead_folders, errors, changed, passes, todo>>

\* a free worker takes the oldest task of the queue
WorkerStart ==
  /\ pc \in {"extract", "collect", "shutdown"}
  /\ InState("PENDING") # {}
  /\ Cardinality(InState("RUNNING")) < max_workers
  /\ LET f == CHOOSE g \in InState("PENDING") :
                 \A h \in InState("PENDING") : g <= h
     IN futures' = [futures EXCEPT ![f] = Future("RUNNING", NoResult)]
  /\ UNCHANGED <<project, pc, file_cache, dependency_graph, dead_files,
                 dead_folders, errors, changed, passes, todo>>

\* a worker whose task ends by storing the analysis itself
WorkerFinish_writes ==
  /\ pc \in {"extract", "collect", "shutdown"}
  /\ \E f \in InState("RUNNING") :
       LET result == _analyze_file(Source(f), SrcPath(f))
       IN /\ futures' = [futures EXCEPT ![f] = Future("FINISHED", result)]
          /\ file_cache' = file_cache @@ (SrcPath(f) :> result)
  /\ UNCHANGED <<project, pc, dependency_graph, dead_files,
                 dead_folders, errors, changed, passes, todo>>

\* a worker runs _analyze_file to its end: the return value, or the
\* exception that left it, goes into the future
WorkerFinish ==
  /\ pc \in {"extract", "collect", "shutdown"}
  /\ \E f \in InState("RUNNING") :
       futures' = [futures EXCEPT ![f] =
                     Future("FINISHED", _analyze_file(Source(f), SrcPath(f)))]
  /\ UNCHANGED <<project, pc, file_cache, dependency_graph, dead_files,
                 dead_folders, errors, changed, passes, todo>>

\* lines 1240-1243: as_completed yields a finished future; future.result()
\* returns the analysis, which is stored, or raises the task's exception,
\* which leaves the loop and the with block
Collect ==
  /\ pc = "collect"
  /\ \E f \in InState("FINISHED") :
       /\ SrcPath(f) \notin DOMAIN file_cache
       /\ IF futures[f].result = Raised
            THEN pc' = "shutdown" /\ UNCHANGED file_cache
            ELSE /\ file_cache' = file_cache @@ (SrcPath(f) :> futures[f].result)
                 /\ UNCHANGED pc
  /\ UNCHANGED <<project, futures, dependency_graph, dead_files,
                 dead_folders, errors, changed, passes, todo>>

\* the loop is exhausted and the with block is left: on to line 1246
ExitPool ==
  /\ pc = "collect"
  /\ all_completed
  /\ pc' = "build_graph"
  /\ UNCHANGED <<project, futures, file_cache, dependency_graph, dead_files,
                 dead_folders, errors, changed, passes, todo>>

\* the with block left by an exception: shutdown(wait=True) lets the workers
\* drain the queue, then the exception leaves run_all_checks
Abort ==
  /\ pc = "shutdown"
  /\ InState("PENDING") = {} /\ InState("RUNNING") = {}
  /\ pc' = "aborted"
  /\ UNCHANGED <<project, futures, file_cache, dependency_graph, dead_files,
                 dead_folders, errors, changed, passes, todo>>

\* ------------------------------------------------------- DependencyGraph
MapAdd(m, k, v) ==
  IF k \in DOMAIN m THEN [m EXCEPT ![k] = @ \cup {v}] ELSE m @@ (k :> {v})

MapGet(m, k) == IF k \in DOMAIN m THEN m[k] ELSE {}

\* an add_dependency that leaves the inverse index alone
add_dependency_forward(g, from_symbol, to_symbol) ==
  [g EXCEPT !.dependencies = MapAdd(@, from_symbol, to_symbol),
            !.all_symbols = @ \cup {from_symbol, to_symbol}]

add_dependency(g, from_symbol, to_symbol) ==
  [g EXCEPT !.dependencies = MapAdd(@, from_symbol, to_symbol),
            !.dependents = MapAdd(@, to_symbol, from_symbol),
            !.all_symbols = @ \cup {from_symbol, to_symbol}]

mark_as_export(g, symbol) ==
  [g EXCEPT !.exported_symbols = @ \cup {symbol},
            !.all_symbols = @ \cup {symbol}]

mark_as_dead(g, symbol) == [g EXCEPT !.dead_symbols = @ \cup {symbol}]

\* add_dependency(e[1], e[2]) for every e of edges; the calls only add to
\* sets, so their order does not matter and the result is written at once
AddDependencies(g, edges) ==
  [g EXCEPT
     !.dependencies =
        [k \in DOMAIN @ \cup {e[1] : e \in edges} |->
           MapGet(@, k) \cup {e[2] : e \in {x \in edges : x[1] = k}}],
     !.dependents =
        [k \in DOMAIN @ \cup {e[2] : e \in edges} |->
           MapGet(@, k) \cup {e[1] : e \in {x \in edges : x[2] = k}}],
     !.all_symbols = @ \cup {e[1] : e \in edges} \cup {e[2] : e \in edges}]

RECURSIVE MarkExports(_, _)
MarkExports(g, keys) ==
  IF keys = {} THEN g
  ELSE LET k == CHOOSE x \in keys : TRUE
       IN MarkExports(mark_as_export(g, k), keys \ {k})

RECURSIVE MarkDead(_, _)
MarkDead(g, keys) ==
  IF keys = {} THEN g
  ELSE LET k == CHOOSE x \in keys : TRUE
       IN MarkDead(mark_as_dead(g, k), keys \ {k})

\* ---------------------------------------------------- ImportPathResolver
\* a relative specifier comes back resolve()d, a '~/' specifier comes back
\* joined to src_path; anything else, or a file that does not exist, None
_resolve_import_path(import_path, from_file) ==
  IF import_path.kind = "rel" /\ import_path.target \in Files
    THEN AbsPath(import_path.target)
  ELSE IF import_path.kind = "alias" /\ import_path.target \in Files
    THEN SrcPath(import_path.target)
  ELSE NoPath

Analyses == {file_cache[p] : p \in DOMAIN file_cache}

\* imp.original_name if ... imp.original_name else imp.name
ExportNameOf(imp) ==
  IF imp.original_name # "" THEN imp.original_name ELSE imp.name

\* ------------------------------------------------ _build_dependency_graph
ImportDependencies ==
  UNION {
    LET resolved_path == _resolve_import_path(imp.from_path, imp.file_path)
    IN IF resolved_path # NoPath /\ resolved_path \in DOMAIN file_cache
         THEN IF imp.import_type = "namespace"
                THEN {<<FileKey(imp.file_path), Key(resolved_path, export.name)>> :
                        export \in file_cache[resolved_path].exports}
                ELSE {<<FileKey(imp.file_path),
                        Key(resolved_path, ExportNameOf(imp))>>}
         ELSE {} :
    imp \in UNION {fa.imports : fa \in Analyses}}

InternalDependencies ==
  UNION {
    {<<Key(pr[1].file_path, pr[1].name), Key(pr[2].file_path, pr[2].name)>> :
       pr \in {q \in fa.symbols \X fa.symbols :
                 q[2].name # q[1].name /\ q[2].name \in fa.used_symbols}} :
    fa \in Analyses}

_build_dependency_graph(g) ==
  LET exports == {Key(export.file_path, export.name) :
                    export \in UNION {fa.exports : fa \in Analyses}}
      internal == {Key(symbol.file_path, symbol.name) :
                     symbol \in {x \in UNION {fa.symbols : fa \in Analyses} :
                                   ~x.is_exported}}
      g1 == MarkExports(g, exports)
      g2 == [g1 EXCEPT !.all_symbols = @ \cup internal]
  IN AddDependencies(AddDependencies(g2, ImportDependencies),
                     InternalDependencies)

BuildDependencyGraph ==
  /\ pc = "build_graph"
  /\ dependency_graph' = _build_dependency_graph(dependency_graph)
  /\ pc' = "mark_dead"
  /\ UNCHANGED <<project, futures, file_cache, dead_files, dead_folders, errors,
                 changed, passes, todo>>

\* ------------------------------------------------- _build_reexport_chains
\* source_name of a named re-export
SourceNameOf(export) ==
  IF export.original_name # "" THEN export.original_name ELSE export.name

ReexportPairs ==
  UNION {
    LET source_path == _resolve_import_path(export.from_path, export.file_path)
    IN IF source_path # NoPath /\ source_path \in DOMAIN file_cache
         THEN IF export.export_type = "wildcard"
                THEN UNION {
                       IF source_export.is_reexport
                         THEN IF source_export.from_path # NoSpec
                                THEN LET original_source_path ==
                                           _resolve_import_path(
                                             source_export.from_path, source_path)
                                     IN IF original_source_path # NoPath
                                           /\ original_source_path \in DOMAIN file_cache
                                          THEN {<<Key(original_source_path,
                                                      source_export.name),
                                                  Key(export.file_path,
                                                      source_export.name)>>}
                                          ELSE {}
                                ELSE {}
                         ELSE {<<Key(source_path, source_export.name),
                                 Key(export.file_path, source_export.name)>>} :
                       source_export \in file_cache[source_path].exports}
                ELSE {<<Key(source_path, SourceNameOf(export)),
                        Key(export.file_path, export.name)>>}
         ELSE {} :
    export \in {e \in UNION {fa.exports : fa \in Analyses} :
                  e.is_reexport /\ e.from_path # NoSpec}}

_build_reexport_chains ==
  [original_key \in {pr[1] : pr \in ReexportPairs} |->
     {pr[2] : pr \in {q \in ReexportPairs : q[1] = original_key}}]

\* ------------------------------------------------------ _mark_dead_symbols
\* what one import adds to imported_symbols (lines 848-891)
ImportedBy(imp) ==
  LET resolved_path == _resolve_import_path(imp.from_path, imp.file_path)
  IN IF resolved_path = NoPath THEN {}
     ELSE IF imp.import_type = "namespace"
       THEN IF resolved_path \in DOMAIN file_cache
              THEN UNION {
                     IF export.is_reexport /\ export.from_path # NoSpec
                       THEN LET source_path ==
                                  _resolve_import_path(export.from_path,
                                                       resolved_path)
                            IN IF source_path # NoPath
                                 THEN {Key(source_path, SourceNameOf(export))}
                                 ELSE {}
                       ELSE {Key(resolved_path, export.name)} :
                     export \in file_cache[resolved_path].exports}
              ELSE {}
     ELSE {Key(resolved_path, ExportNameOf(imp))}
          \cup (IF resolved_path \in DOMAIN file_cache
                  THEN UNION {
                         LET source_path ==
                               _resolve_import_path(export.from_path,
                                                    resolved_path)
                         IN IF source_path # NoPath
                              THEN {Key(source_path, SourceNameOf(export))}
                              ELSE {} :
                         export \in {e \in file_cache[resolved_path].exports :
                                       /\ e.name = ExportNameOf(imp)
                                       /\ e.is_reexport
                                       /\ e.from_path # NoSpec}}
                  ELSE {})
          \cup (IF imp.import_type = "default"
                  THEN {Key(resolved_path, "default")} ELSE {})

imported_symbols ==
  UNION {ImportedBy(imp) : imp \in UNION {fa.imports : fa \in Analyses}}

\* the verdict of lines 895-931 on one export that is not a re-export
IsUsedExport(export, symbol_key, reexport_chains) ==
  \/ symbol_key \in imported_symbols
  \/ \E reexport_key \in MapGet(reexport_chains, symbol_key) :
        reexport_key \in imported_symbols
  \/ /\ export.export_type \in {"interface", "type"}
     /\ \E fa \in Analyses : export.name \in fa.interface_implementations
  \/ _is_barrel_file(export.file_path.id)

StartsWithUnderscore(name) == IsPrefix("_", name)

DeadExportKeys ==
  LET reexport_chains == _build_reexport_chains
  IN {Key(export.file_path, export.name) :
        export \in {e \in UNION {fa.exports : fa \in Analyses} :
                      /\ ~e.is_reexport
                      /\ ~IsUsedExport(e, Key(e.file_path, e.name),
                                       reexport_chains)}}

DeadLocalKeys ==
  UNION {{Key(symbol.file_path, symbol.name) :
            symbol \in {x \in fa.symbols :
                          /\ x.name \notin fa.used_symbols
                          /\ ~StartsWithUnderscore(x.name)
                          /\ x.symbol_type \notin {"interface", "type"}}} :
         fa \in Analyses}

_mark_dead_symbols(g) == MarkDead(MarkDead(g, DeadExportKeys), DeadLocalKeys)

MarkDeadSymbols ==
  /\ pc = "mark_dead"
  /\ dependency_graph' = _mark_dead_symbols(dependency_graph)
  /\ pc' = "detect_files"
  /\ UNCHANGED <<project, futures, file_cache, dead_files, dead_folders, errors,
                 changed, passes, todo>>

\* ------------------------------------------------------------- issues
Issue(kind, file, dir, symbol, count) ==
  [kind |-> kind, file |-> file, dir |-> dir, symbol_name |-> symbol,
   count |-> count]

\* ------------------------------------------------------ _detect_dead_files
AllExportsDead(g, fa) ==
  \A export \in fa.exports :
     \/ Key(fa.path, export.name) \in g.dead_symbols
     \/ Key(fa.path, export.name) \in g.transitively_dead

_detect_dead_files(g) ==
  {file_path \in DOMAIN file_cache :
     /\ InTargetPath(file_path.id)
     /\ ~(_is_test_file(file_path.id) \/ _is_exception(file_path.id))
     /\ file_cache[file_path].exports # {}
     /\ AllExportsDead(g, file_cache[file_path])}

\* a count that takes every symbol, the exported ones a second time
total_symbols_all(fa) ==
  Cardinality(fa.exports) + Cardinality(fa.symbols)

total_symbols(fa) ==
  Cardinality(fa.exports)
    + Cardinality({s \in fa.symbols : ~s.is_exported})

DeadFileIssue(file_path) ==
  Issue("dead_file", file_path.id, Source(file_path.id).dir, "__file__",
        total_symbols(file_cache[file_path]))

DetectDeadFiles ==
  /\ pc = "detect_files"
  /\ dead_files' = _detect_dead_files(dependency_graph)
  /\ errors' = errors (+) SetToBag({DeadFileIssue(p) : p \in dead_files'})
  /\ pc' = "detect_folders"
  /\ UNCHANGED <<project, futures, file_cache, dependency_graph, dead_folders,
                 changed, passes, todo>>

\* ---------------------------------------------------- _detect_dead_folders
dead_files_by_folder(folder_path) ==
  {p \in dead_files : p \in DOMAIN file_cache /\ Source(p.id).dir = folder_path}

all_files_by_folder(folder_path) ==
  {f \in _find_target_files :
     ~_is_test_file(f) /\ Source(f).dir = folder_path}

\* a roll-up that settles for half of the files
should_report_folder_majority(dead_count, total_count) ==
  2 * dead_count >= total_count

\* dead_ratio >= 1.0 with dead_ratio = dead_count / total_count
should_report_folder(dead_count, total_count) == dead_count >= total_count

MinFolderFiles == 2

_detect_dead_folders ==
  {folder_path \in {Source(p.id).dir : p \in dead_files} :
     LET dead_count == Cardinality(dead_files_by_folder(folder_path))
         total_count == Cardinality(all_files_by_folder(folder_path))
     IN /\ ~(total_count < MinFolderFiles)
        /\ should_report_folder(dead_count, total_count)}

DeadFolderIssue(folder_path) ==
  Issue("dead_folder", 0, folder_path, "__folder__",
        Cardinality(all_files_by_folder(folder_path)))

\* a roll-up that leaves the issue list as it was
RemoveFileIssues_none(B, folders) == B

\* lines 1184-1201: the `__file__` issues of files directly in a dead folder
\* leave the list
RemoveFileIssues(B, folders) ==
  [e \in {x \in DOMAIN B :
            ~(x.symbol_name = "__file__" /\ x.dir \in folders)} |-> B[e]]

DetectDeadFolders ==
  LET folders == _detect_dead_folders
  IN /\ pc = "detect_folders"
     /\ dead_folders' = folders
     /\ errors' = RemoveFileIssues(errors, folders)
                    (+) SetToBag({DeadFolderIssue(d) : d \in folders})
     /\ pc' = "unused_exports"
     /\ UNCHANGED <<project, futures, file_cache, dependency_graph, dead_files,
                    changed, passes, todo>>

\* --------------------------------------------------- _check_unused_exports
\* the files the three reporting passes look at
\* a test that lets the dead files through
Reported_any(fa) ==
  /\ InTargetPath(fa.path.id)
  /\ ~_is_exception(fa.path.id)

Reported(fa) ==
  /\ InTargetPath(fa.path.id)
  /\ fa.path \notin dead_files
  /\ ~_is_exception(fa.path.id)

IsPagePath(f) == Source(f).base = "page"

_check_unused_exports(g) ==
  UNION {
    {Issue("unused_export", fa.path.id, Source(fa.path.id).dir, export.name, 0) :
       export \in {e \in fa.exports :
                     /\ Key(fa.path, e.name) \in g.dead_symbols
                     /\ ~(e.name = "default" /\ IsPagePath(e.file_path.id))
                     /\ e.name \notin fa.used_symbols}} :
    fa \in {a \in Analyses : Reported(a)}}

CheckUnusedExports ==
  /\ pc = "unused_exports"
  /\ errors' = errors (+) SetToBag(_check_unused_exports(dependency_graph))
  /\ pc' = "unused_locals"
  /\ UNCHANGED <<project, futures, file_cache, dependency_graph, dead_files,
                 dead_folders, changed, passes, todo>>

\* --------------------------------------------- _check_unused_local_symbols
UnusedLocalSymbols ==
  UNION {{symbol \in fa.symbols :
            /\ symbol.name \notin fa.used_symbols
            /\ ~StartsWithUnderscore(symbol.name)
            /\ symbol.symbol_type \notin {"interface", "type"}} :
         fa \in {a \in Analyses : Reported(a)}}

CheckUnusedLocalSymbols ==
  /\ pc = "unused_locals"
  /\ dependency_graph' =
       MarkDead(dependency_graph,
                {Key(s.file_path, s.name) : s \in UnusedLocalSymbols})
  /\ errors' = errors (+) SetToBag(
       {Issue("unused_symbol", s.file_path.id, Source(s.file_path.id).dir,
              s.name, 0) : s \in {x \in UnusedLocalSymbols : ~x.is_exported}})
  /\ pc' = "transitive"
  /\ UNCHANGED <<project, futures, file_cache, dead_files, dead_folders, changed,
                 passes, todo>>

\* ----------------------------------------------- find_transitive_dead_code
MaxPasses == 10

IsDead(g, symbol) ==
  symbol \in g.dead_symbols \/ symbol \in g.transitively_dead

\* a test that finds no file with a live export
has_live_exports_never(g, dependent) == FALSE

\* lines 91-96: the file of a `__file__` dependent still has a live export
\* a test under which every file has a live export
has_live_exports_always(g, dependent) == TRUE

has_live_exports(g, dependent) ==
  \E other_symbol \in g.exported_symbols :
     other_symbol[1] = dependent[1] /\ ~IsDead(g, other_symbol)

all_dependents_dead(g, symbol) ==
  \A dependent \in MapGet(g.dependents, symbol) :
     \/ IsDead(g, dependent)
     \/ dependent[2] = "__file__" /\ ~has_live_exports(g, dependent)

\* a pass that also visits the symbols already marked dead
PassSymbols_all(g) ==
  {symbol \in g.all_symbols : MapGet(g.dependents, symbol) # {}}

\* a loop that has no pass bound
FindTransitivePass_unbounded ==
  /\ pc = "transitive"
  /\ changed
  /\ changed' = FALSE
  /\ passes' = passes + 1
  /\ todo' = {symbol \in dependency_graph.all_symbols :
                ~IsDead(dependency_graph, symbol)
                  /\ MapGet(dependency_graph.dependents, symbol) # {}}
  /\ pc' = IF todo' = {} THEN "transitive" ELSE "pass"
  /\ UNCHANGED <<project, futures, file_cache, dependency_graph, dead_files,
                 dead_folders, errors>>

\* The body of the for loop skips a symbol that is dead or has no dependent
\* (lines 72-80); neither changes while the loop runs, so a pass only has
\* to visit, in any order, the symbols that pass both tests at its start.
PassSymbols(g) ==
  {symbol \in g.all_symbols :
     ~IsDead(g, symbol) /\ MapGet(g.dependents, symbol) # {}}

FindTransitivePass ==
  /\ pc = "transitive"
  /\ changed /\ passes < MaxPasses
  /\ changed' = FALSE
  /\ passes' = passes + 1
  /\ todo' = PassSymbols(dependency_graph)
  /\ pc' = IF todo' = {} THEN "transitive" ELSE "pass"
  /\ UNCHANGED <<project, futures, file_cache, dependency_graph, dead_files,
                 dead_folders, errors>>

VisitSymbol ==
  /\ pc = "pass"
  /\ \E symbol \in todo :
       /\ todo' = todo \ {symbol}
       /\ IF all_dependents_dead(dependency_graph, symbol)
            THEN /\ dependency_graph' =
                      [dependency_graph EXCEPT
                         !.transitively_dead = @ \cup {symbol}]
                 /\ changed' = TRUE
            ELSE UNCHANGED <<dependency_graph, changed>>
       /\ pc' = IF todo' = {} THEN "transitive" ELSE "pass"
  /\ UNCHANGED <<project, futures, file_cache, dead_files, dead_folders, errors,
                 passes>>

\* --------------------------------------------------------- count_dead_chain
\* the elements of a set in the order a for loop meets them
RECURSIVE SetToSeq(_)
SetToSeq(S) ==
  IF S = {} THEN <<>>
  ELSE LET x == CHOOSE y \in S : TRUE IN <<x>> \o SetToSeq(S \ {x})

\* a traversal that follows every dependency
DeadDependencies_all(g, current) == MapGet(g.dependencies, current)

\* lines 123-125: the dependencies the visit of `current` appends
DeadDependencies(g, current) ==
  {dep \in MapGet(g.dependencies, current) : IsDead(g, dep)}

\* the while loop of lines 115-125; its value is `count` when the queue is
\* empty
RECURSIVE DeadChain(_, _, _, _)
DeadChain(g, queue, visited, count) ==
  IF queue = <<>> THEN count
  ELSE LET current == Head(queue)
       IN IF current \in visited
            THEN DeadChain(g, Tail(queue), visited, count)
            ELSE DeadChain(g,
                   Tail(queue) \o SetToSeq(DeadDependencies(g, current)),
                   visited \cup {current}, count + 1)

count_dead_chain(g, symbol) == DeadChain(g, <<symbol>>, {}, 0)

\* ---------------------------------------------- _check_transitive_dead_code
_check_transitive_dead_code(g) ==
  UNION {
    LET file_path == symbol_key[1]
        symbol_name == symbol_key[2]
    IN IF /\ file_path.form = "src" /\ file_path.id \in Files
          /\ InTargetPath(file_path.id)
          /\ file_path \notin dead_files
          /\ ~_is_exception(file_path.id)
          /\ file_path \in DOMAIN file_cache
          /\ \E export \in file_cache[file_path].exports :
                export.name = symbol_name /\ ~export.is_reexport
         THEN {Issue("transitive_export", file_path.id,
                     Source(file_path.id).dir, symbol_name,
                     count_dead_chain(g, symbol_key))}
         ELSE {} :
    symbol_key \in g.transitively_dead}

ReportTransitive ==
  /\ pc = "transitive"
  /\ ~(changed /\ passes < MaxPasses)
  /\ errors' = errors (+) SetToBag(_check_transitive_dead_code(dependency_graph))
  /\ pc' = "done"
  /\ UNCHANGED <<project, futures, file_cache, dependency_graph, dead_files,
                 dead_folders, changed, passes, todo>>

\* ------------------------------------------------------------ run_all_checks
Next ==
  \/ AnalyzeAll
  \/ BuildDependencyGraph
  \/ MarkDeadSymbols
  \/ DetectDeadFiles
  \/ DetectDeadFolders
  \/ CheckUnusedExports
  \/ CheckUnusedLocalSymbols
  \/ FindTransitivePass
  \/ VisitSymbol
  \/ ReportTransitive

Spec == Init /\ [][Next]_vars

TypeOK ==
  /\ pc \in {"api", "extract", "collect", "shutdown", "aborted",
             "build_graph", "mark_dead", "detect_files",
             "detect_folders", "unused_exports", "unused_locals",
             "transitive", "pass", "done"}
  /\ passes \in 0..MaxPasses
  /\ changed \in BOOLEAN

\* The same run on the projects whose specifiers all use the root alias '~/'
AliasOnly(files) ==
  \A f \in DOMAIN files :
     /\ \A i \in files[f].imports : i.from_path.kind # "rel"
     /\ \A r \in files[f].reexports : r.from_path.kind # "rel"
     /\ \A w \in files[f].wildcards : w.kind # "rel"

InitAlias == Init /\ AliasOnly(project.files)

SpecAlias == InitAlias /\ [][Next]_vars

\* The run with the worker pool step by step, on trees of up to MaxPoolFiles
\* files of which at most one fails
InitPool ==
  /\ project \in PoolProjects
  /\ pc = "extract"
  /\ futures = [f \in {} |-> {}]
  /\ file_cache = [p \in {} |-> {}]
  /\ dependency_graph = DependencyGraph
  /\ dead_files = {}
  /\ dead_folders = {}
  /\ errors = EmptyBag
  /\ changed = TRUE
  /\ passes = 0
  /\ todo = {}

NextPool ==
  \/ Submit
  \/ WorkerStart
  \/ WorkerFinish
  \/ Collect
  \/ ExitPool
  \/ Abort
  \/ BuildDependencyGraph
  \/ MarkDeadSymbols
  \/ DetectDeadFiles
  \/ DetectDeadFolders
  \/ CheckUnusedExports
  \/ CheckUnusedLocalSymbols
  \/ FindTransitivePass
  \/ VisitSymbol
  \/ ReportTransitive

SpecPool == InitPool /\ [][NextPool]_vars

\* The run on rows of files each importing from the one before, long enough
\* for the propagation to need more passes than MaxPasses.  The run is one
\* thread of control: a step that can be taken is taken.
InitChain ==
  /\ project \in FileChainProjects
  /\ pc = "extract"
  /\ futures = [f \in {} |-> {}]
  /\ file_cache = [p \in {} |-> {}]
  /\ dependency_graph = DependencyGraph
  /\ dead_files = {}
  /\ dead_folders = {}
  /\ errors = EmptyBag
  /\ changed = TRUE
  /\ passes = 0
  /\ todo = {}

SpecChain == InitChain /\ [][Next]_vars /\ WF_vars(Next)

\* A DependencyGraph in the hands of a caller that calls its methods in any
\* order, on the keys of an export of one file and of an export and the
\* pseudo-key of another.
GraphKeys ==
  {Key(SrcPath(1), "a"), Key(SrcPath(2), "c"), FileKey(SrcPath(2))}

Edges(g) == {e \in GraphKeys \X GraphKeys : e[2] \in MapGet(g.dependencies, e[1])}

CallAddDependency ==
  /\ pc = "api"
  /\ \E from_symbol \in GraphKeys, to_symbol \in GraphKeys :
       /\ Cardinality(Edges(dependency_graph) \cup {<<from_symbol, to_symbol>>})
            <= MaxEdges
       /\ dependency_graph' =
            add_dependency(dependency_graph, from_symbol, to_symbol)
  /\ UNCHANGED <<project, pc, futures, file_cache, dead_files, dead_folders,
                 errors, changed, passes, todo>>

CallMarkAsExport ==
  /\ pc = "api"
  /\ \E symbol \in GraphKeys :
       dependency_graph' = mark_as_export(dependency_graph, symbol)
  /\ UNCHANGED <<project, pc, futures, file_cache, dead_files, dead_folders,
                 errors, changed, passes, todo>>

CallMarkAsDead ==
  /\ pc = "api"
  /\ \E symbol \in GraphKeys :
       dependency_graph' = mark_as_dead(dependency_graph, symbol)
  /\ UNCHANGED <<project, pc, futures, file_cache, dead_files, dead_folders,
                 errors, changed, passes, todo>>

\* lines 63-64: find_transitive_dead_code is entered
CallFindTransitive ==
  /\ pc = "api"
  /\ pc' = "transitive"
  /\ changed' = TRUE
  /\ passes' = 0
  /\ UNCHANGED <<project, futures, file_cache, dependency_graph, dead_files,
                 dead_folders, errors, todo>>

\* the while loop is left and the method returns
ReturnFindTransitive ==
  /\ pc = "transitive"
  /\ ~(changed /\ passes < MaxPasses)
  /\ pc' = "api"
  /\ UNCHANGED <<project, futures, file_cache, dependency_graph, dead_files,
                 dead_folders, errors, changed, passes, todo>>

\* count_dead_chain works on locals and reads the maps with get(): the call
\* returns its count and leaves the graph as it was
CallCountDeadChain ==
  /\ pc = "api"
  /\ \E symbol \in GraphKeys :
       count_dead_chain(dependency_graph, symbol) >= 1
  /\ UNCHANGED vars

InitGraph ==
  /\ project = Project(FileChainFiles(1, FALSE), "src")
  /\ pc = "api"
  /\ futures = [f \in {} |-> {}]
  /\ file_cache = [p \in {} |-> {}]
  /\ dependency_graph = DependencyGraph
  /\ dead_files = {}
  /\ dead_folders = {}
  /\ errors = EmptyBag
  /\ changed = TRUE
  /\ passes = 0
  /\ todo = {}

NextGraph ==
  \/ CallAddDependency
  \/ CallMarkAsExport
  \/ CallMarkAsDead
  \/ CallFindTransitive
  \/ FindTransitivePass
  \/ VisitSymbol
  \/ ReturnFindTransitive
  \/ CallCountDeadChain

SpecGraph == InitGraph /\ [][NextGraph]_vars

\* ------------------------------------------------- what the sources mean
\* The declared exports that name n, exported by file f, stands for under
\* module semantics: the declaration itself, or what a named, aliased or
\* wildcard re-export of f forwards, followed for at most `fuel` files.
RECURSIVE Origins(_, _, _)
Origins(f, n, fuel) ==
  IF fuel = 0 \/ f \notin Files THEN {}
  ELSE {<<f, n>> : d \in {x \in Source(f).decls : x.exported /\ x.name = n}}
       \cup UNION {Origins(r.from_path.target,
                           IF r.original_name # "" THEN r.original_name
                           ELSE r.name, fuel - 1) :
                     r \in {x \in Source(f).reexports : x.name = n}}
       \cup UNION {Origins(w.target, n, fuel - 1) : w \in Source(f).wildcards}

DeclaredExports ==
  {<<f, d.name>> : f \in Files, d \in UNION {Source(g).decls : g \in Files}}
    \cap UNION {{<<f, d.name>> : d \in {x \in Source(f).decls : x.exported}} :
                f \in Files}

Fuel == Cardinality(Files) + 1

\* the declared exports some import of the project resolves to
ImportTargets ==
  UNION {
    UNION {
      IF i.from_path.target \notin Files THEN {}
      ELSE IF i.import_type = "namespace"
        THEN {S \in DeclaredExports :
                \E T \in DeclaredExports :
                   S \in Origins(i.from_path.target, T[2], Fuel)}
               \cup {S \in DeclaredExports :
                       \E r \in Source(i.from_path.target).reexports :
                          S \in Origins(i.from_path.target, r.name, Fuel)}
        ELSE Origins(i.from_path.target,
                     IF i.original_name # "" THEN i.original_name ELSE i.name,
                     Fuel) :
      i \in Source(g).imports} :
    g \in {h \in Files : Source(h).readable}}

AfterMarkDead == pc \notin {"extract", "build_graph", "mark_dead"}

AfterFind ==
  pc = "done" \/ (pc = "transitive" /\ ~(changed /\ passes < MaxPasses))

Dead == dependency_graph.dead_symbols
TransitivelyDead == dependency_graph.transitively_dead

\* how many issues of the list satisfy P
IssueCount(P(_)) ==
  BagCardinality([e \in {x \in DOMAIN errors : P(x)} |-> errors[e]])

SymbolLevel(issue) ==
  issue.kind \in {"unused_export", "unused_symbol", "transitive_export"}

\* --------------------------------------------------------------- claims

\* C1: after the direct-dead pass no declared export that some import of the
\* project resolves to, directly or through re-exports of any depth, is in
\* dead_symbols.
C1_DirectDeadSound ==
  AfterMarkDead =>
    \A S \in ImportTargets :
       Source(S[1]).readable => Key(SrcPath(S[1]), S[2]) \notin Dead

ScenarioB ==
  project \in {Project(ReexportFiles(1, "named", "rel", "named", FALSE), "src")}

\* C2: A declares `a`, B re-exports it from './A', C imports it from B: the
\* run does not mark A's `a` dead and ends with no issue.
C2_ReexportTransparent ==
  ScenarioB =>
    /\ AfterMarkDead => Key(SrcPath(1), "a") \notin Dead
    /\ pc = "done" => errors = EmptyBag

ScenarioA ==
  project \in {Project(UsageFiles(TRUE, 1, FALSE, kind, TRUE), "src") :
                 kind \in SpecKinds}

\* C3: utils exports `used` and `unused`, main imports and calls only `used`:
\* the final issue list holds exactly one symbol-level issue naming `unused`
\* and no issue of any kind naming `used`.
C3_OnlyUnusedReported ==
  (ScenarioA /\ pc = "done") =>
    /\ IssueCount(LAMBDA i : SymbolLevel(i) /\ i.symbol_name = "unused") = 1
    /\ IssueCount(LAMBDA i : i.symbol_name = "used") = 0

CleanProject ==
  project \in {Project(UsageFiles(FALSE, 2, TRUE, kind, TRUE), "src") :
                 kind \in SpecKinds}

\* C4: utils imported by services, services imported by main, main exporting
\* only its entry function: the run returns an empty issue list.
C4_NoFalsePositives == (CleanProject /\ pc = "done") => errors = EmptyBag

\* the unexported declarations of file f that exactly one declaration, the
\* exported e, refers to, and that the top level does not refer to
HelpersOnlyOf(f, e) ==
  {h \in Source(f).decls :
     /\ ~h.exported
     /\ h.name \in e.refs
     /\ h.name \notin Source(f).top
     /\ \A d \in Source(f).decls : h.name \in d.refs => d = e}

\* C5: in any file with an export that is imported nowhere and an unexported
\* helper referenced only by that export, the helper's key is in
\* transitively_dead once find_transitive_dead_code has returned.
C5_HelperPromoted ==
  AfterFind =>
    \A f \in {g \in Files : Source(g).readable} :
      \A e \in {d \in Source(f).decls : d.exported} :
        <<f, e.name>> \notin ImportTargets =>
          \A h \in HelpersOnlyOf(f, e) :
             Key(SrcPath(f), h.name) \in TransitivelyDead

LiveChain ==
  project \in {Project(ChainFiles(3, kB, kind), "src") :
                 kB \in (-1)..MaxLocals, kind \in SpecKinds}

LiveChainNames == {"main", "step1", "step2", "step3"}

\* C6: main -> step1 -> step2 -> step3 in one file, main exported and imported
\* by another file: at the end of the run none of the four keys is in
\* dead_symbols or transitively_dead and no issue names any of them.
C6_LiveChainPreserved ==
  (LiveChain /\ pc = "done") =>
    /\ \A n \in LiveChainNames :
         Key(SrcPath(1), n) \notin Dead \cup TransitivelyDead
    /\ IssueCount(LAMBDA i : i.file = 1 /\ i.symbol_name \in LiveChainNames) = 0

DeadChainProject ==
  project \in {Project(ChainFiles(kA, 2, kind), "src") :
                 kA \in (-1)..MaxLocals, kind \in SpecKinds}

\* C7: deadChain -> deadStep1 -> deadStep2 in one file, deadChain exported and
\* imported by no file: at the end of the run all three keys are in
\* dead_symbols or transitively_dead and count_dead_chain(deadChain) >= 3.
C7_DeadChainFlagged ==
  (DeadChainProject /\ pc = "done") =>
    /\ \A n \in {"deadChain", "deadStep1", "deadStep2"} :
         Key(SrcPath(1), n) \in Dead \cup TransitivelyDead
    /\ count_dead_chain(dependency_graph, Key(SrcPath(1), "deadChain")) >= 3

\* the analysed target files in which every export is in dead_symbols
AllExportsDirectlyDead ==
  {p \in DOMAIN file_cache :
     /\ p.id \in _find_target_files
     /\ file_cache[p].exports # {}
     /\ \A export \in file_cache[p].exports :
           Key(p, export.name) \in Dead}

\* exports plus the symbols that are not exported
SymbolCount(p) ==
  Cardinality(file_cache[p].exports)
    + Cardinality(file_cache[p].symbols
                    \ {s \in file_cache[p].symbols : s.is_exported})

ReportedOnceAsFile(p) ==
  /\ IssueCount(LAMBDA i : i.file = p.id) = 1
  /\ IssueCount(LAMBDA i : /\ i.file = p.id
                           /\ i.kind = "dead_file"
                           /\ i.symbol_name = "__file__"
                           /\ i.count = SymbolCount(p)) = 1

C9_DeadFileIffAllExportsDead ==
  pc = "done" =>
    \A p \in {q \in DOMAIN file_cache :
                q.id \in _find_target_files /\ ~_is_exception(q.id)} :
       p \in dead_files <=>
         /\ file_cache[p].exports # {}
         /\ \A export \in file_cache[p].exports :
               Key(p, export.name) \in Dead \cup TransitivelyDead

Folders == {Source(f).dir : f \in Files}

\* the non-test files the run examines directly inside folder d
NonTestFilesIn(d) ==
  {f \in Files : UnderTarget(f) /\ ~_is_test_file(f) /\ Source(f).dir = d}

FolderReported(d) ==
  IssueCount(LAMBDA i : i.symbol_name = "__folder__" /\ i.dir = d) >= 1

AfterDetectFolders ==
  pc \in {"unused_exports", "unused_locals", "transitive", "pass", "done"}

FileIssues(f) ==
  IssueCount(LAMBDA i : i.symbol_name = "__file__" /\ i.file = f)

\* C11: once the folders are detected, a folder reported dead is reported by
\* exactly one `__folder__` issue and no `__file__` issue of a file directly
\* inside it is in the list, while every dead file of a folder that is not
\* reported dead keeps its one `__file__` issue.
C11_FolderSubsumesFiles ==
  AfterDetectFolders =>
    /\ \A d \in dead_folders :
          /\ IssueCount(LAMBDA i : i.symbol_name = "__folder__" /\ i.dir = d) = 1
          /\ \A f \in {g \in Files : Source(g).dir = d} : FileIssues(f) = 0
    /\ \A p \in dead_files :
          Source(p.id).dir \notin dead_folders => FileIssues(p.id) = 1

\* a run ends with one folder of dead files reported and, beside it, a dead
\* file of another folder still carrying its own issue
C11_Witness ==
  /\ pc = "done"
  /\ \E d \in dead_folders :
        /\ \E p \in dead_files : Source(p.id).dir = d
        /\ \E q \in dead_files :
              Source(q.id).dir \notin dead_folders /\ FileIssues(q.id) = 1

\* C12: dead_symbols and transitively_dead never share a key; dead_symbols
\* changes only in _mark_dead_symbols and _check_unused_local_symbols, and
\* transitively_dead only in the loop of find_transitive_dead_code.
C12_DeadSetsDisjoint ==
  /\ [](Dead \cap TransitivelyDead = {})
  /\ [][/\ Dead' # Dead => pc \in {"mark_dead", "unused_locals"}
        /\ TransitivelyDead' # TransitivelyDead => pc = "pass"]_vars

\* a run ends with a promoted key beside a directly dead key whose dependents
\* are all dead, which only the test of lines 72-73 keeps out of
\* transitively_dead
C12_Witness ==
  /\ pc = "done"
  /\ TransitivelyDead # {}
  /\ \E k \in Dead :
        /\ MapGet(dependency_graph.dependents, k) # {}
        /\ all_dependents_dead(dependency_graph, k)

\* the keys the imports written in test files resolve to
ImportedByTests ==
  UNION {ImportedBy(imp) :
           imp \in UNION {fa.imports :
                            fa \in {a \in Analyses : _is_test_file(a.path.id)}}}

\* C13: every test file is analysed and what its imports resolve to is not
\* marked dead, and the final issue list holds no issue, of any kind, whose
\* file is a test file.
C13_TestFilesNotReported ==
  /\ AfterMarkDead =>
        /\ \A f \in {g \in Files : _is_test_file(g)} :
              SrcPath(f) \in DOMAIN file_cache
        /\ ImportedByTests \cap Dead = {}
  /\ pc = "done" =>
        IssueCount(LAMBDA i : i.kind # "dead_folder" /\ _is_test_file(i.file)) = 0

InPool == pc \in {"extract", "collect", "shutdown", "aborted"}

\* the read of f fails, or its extraction raises
TaskFails(f) == ~Source(f).readable \/ Source(f).raises

\* C14: a failing extraction task never aborts the run, and when the pool is
\* left the failing file has an empty analysis in file_cache and every other
\* file has its own.
C14_FailureIsolated ==
  /\ pc \notin {"shutdown", "aborted"}
  /\ ~InPool =>
        \A f \in Files :
           /\ SrcPath(f) \in DOMAIN file_cache
           /\ file_cache[SrcPath(f)] =
                IF TaskFails(f) THEN EmptyAnalysis(SrcPath(f))
                ELSE _analyze_file(Source(f), SrcPath(f))

\* C15: whenever the run is past the pool, every discovered file has been
\* submitted, its task has finished, and file_cache holds exactly the entries
\* of the discovered files, each the result of its task.
C15_HardBarrier ==
  ~InPool =>
    /\ DOMAIN futures = _find_all_src_files
    /\ DOMAIN file_cache = {SrcPath(f) : f \in _find_all_src_files}
    /\ \A f \in _find_all_src_files :
          /\ futures[f].state = "FINISHED"
          /\ file_cache[SrcPath(f)] = futures[f].result

\* graph construction is about to start on a tree with more files than
\* workers, one of them unreadable
C15_Witness ==
  /\ pc = "build_graph"
  /\ Cardinality(_find_all_src_files) > max_workers
  /\ \E f \in Files : ~Source(f).readable

\* C16: a step that changes file_cache is a step of the collecting loop that
\* stores the result of one finished future and touches no future, and a
\* step of the pool's workers changes nothing but the futures.
C16_SingleWriter ==
  /\ [][file_cache' # file_cache =>
          /\ pc = "collect"
          /\ futures' = futures
          /\ \E f \in InState("FINISHED") :
                /\ SrcPath(f) \notin DOMAIN file_cache
                /\ file_cache' = file_cache @@ (SrcPath(f) :> futures[f].result)]_vars
  /\ [][futures' # futures =>
          UNCHANGED <<file_cache, dependency_graph, dead_files, dead_folders,
                      errors>>]_vars

\* one result is stored while max_workers - 1 workers run and a task waits
C16_Witness ==
  /\ DOMAIN file_cache # {}
  /\ InState("PENDING") # {}
  /\ Cardinality(InState("RUNNING")) = max_workers - 1

\* the exports declared in barrel files that no import of the run resolves to
BarrelExportsNotImported ==
  {Key(export.file_path, export.name) :
     export \in {e \in UNION {fa.exports : fa \in Analyses} :
                   /\ _is_barrel_file(e.file_path.id)
                   /\ ~e.is_reexport
                   /\ Key(e.file_path, e.name) \notin imported_symbols}}

\* C17: an export declared in a barrel file that no import resolves to is
\* never flagged: no issue names it, and no dead-file issue names its file.
C17_BarrelLenient ==
  \A k \in BarrelExportsNotImported :
     /\ IssueCount(LAMBDA i : i.file = k[1].id /\ i.symbol_name = k[2]) = 0
     /\ IssueCount(LAMBDA i : i.file = k[1].id /\ i.symbol_name = "__file__") = 0

\* the analysed page files that have a default export
PagesWithDefault ==
  {p \in DOMAIN file_cache :
     /\ IsPagePath(p.id)
     /\ \E export \in file_cache[p].exports : export.name = "default"}

\* C18: the default export of a page file is never in dead_symbols, no issue
\* names it, and its file is never classified or reported as a dead file.
C18_PageDefaultExempt ==
  \A p \in PagesWithDefault :
     /\ Key(p, "default") \notin Dead
     /\ IssueCount(LAMBDA i : i.file = p.id /\ i.symbol_name = "default") = 0
     /\ p \notin dead_files
     /\ FileIssues(p.id) = 0

\* every name some file of the project declares, re-exports or imports
Names ==
  UNION {{d.name : d \in Source(f).decls}
           \cup {r.name : r \in Source(f).reexports}
           \cup {i.name : i \in Source(f).imports} : f \in Files}

\* the keys, other than its own, under which the declared export O can be
\* imported: the names of the files that re-export it, at any distance
Aliases(O) ==
  {Key(SrcPath(f), n) : f \in {g \in Files : Source(g).readable}, n \in Names}
    \cap {Key(SrcPath(A[1]), A[2]) :
            A \in {B \in Files \X Names :
                     B # O /\ O \in Origins(B[1], B[2], Fuel)}}

\* C19: once the files are analysed, the chains computed from them hold,
\* for every declared export, every key it is re-exported under at any
\* distance, and are keyed by declared exports only.
C19_ChainsFlattened ==
  ~InPool =>
    /\ \A O \in {D \in DeclaredExports : Source(D[1]).readable} :
          Aliases(O) \subseteq
            MapGet(_build_reexport_chains, Key(SrcPath(O[1]), O[2]))
    /\ \A k \in DOMAIN _build_reexport_chains :
          k[1].form = "src" /\ <<k[1].id, k[2]>> \in DeclaredExports

InFind == pc \in {"transitive", "pass", "done"}

\* the exports of the file of key k that are neither dead nor promoted
LiveExportsOf(k) ==
  {e \in dependency_graph.exported_symbols :
     e[1] = k[1] /\ e \notin Dead \cup TransitivelyDead}

\* C20: in every state of find_transitive_dead_code and after it, each key in
\* transitively_dead has a dependent, and each of its dependents is in
\* dead_symbols, in transitively_dead, or is the `__file__` key of a file
\* with no export outside the two sets; so no key that a file with a live
\* export imports is in transitively_dead.
C20_PromotionSound ==
  InFind =>
    /\ \A k \in TransitivelyDead :
          /\ MapGet(dependency_graph.dependents, k) # {}
          /\ \A d \in MapGet(dependency_graph.dependents, k) :
                \/ d \in Dead
                \/ d \in TransitivelyDead
                \/ d[2] = "__file__" /\ LiveExportsOf(d) = {}
    /\ \A edge \in ImportDependencies :
          LiveExportsOf(edge[1]) # {} => edge[2] \notin TransitivelyDead

\* a run ends with one key promoted and with another key, imported only by
\* files that have a live export, left alone
C20_Witness ==
  /\ pc = "done"
  /\ TransitivelyDead # {}
  /\ \E edge \in ImportDependencies :
        /\ edge[2] \notin Dead \cup TransitivelyDead
        /\ \A d \in MapGet(dependency_graph.dependents, edge[2]) :
              d[2] = "__file__" /\ LiveExportsOf(d) # {}

\* no key outside the two sets has a dependent and passes the test of lines
\* 83-102
FixedPoint ==
  \A k \in dependency_graph.all_symbols :
     (k \notin Dead \cup TransitivelyDead
        /\ MapGet(dependency_graph.dependents, k) # {})
       => ~all_dependents_dead(dependency_graph, k)

\* C21: find_transitive_dead_code never runs more than 10 passes and always
\* returns, on graphs with cycles too; when it has returned, either the last
\* pass changed nothing and no key outside dead_symbols and transitively_dead
\* has dependents that are all dead, or exactly 10 passes have run.
C21_BoundedPasses ==
  /\ [](passes <= MaxPasses)
  /\ [](AfterFind => (~changed /\ FixedPoint) \/ passes = MaxPasses)
  /\ (pc = "transitive") ~> AfterFind

\* the loop is left after its tenth pass with a key still to promote
C21_Witness ==
  /\ AfterFind
  /\ passes = MaxPasses
  /\ changed
  /\ ~FixedPoint

\* the least set that holds k and, with a key, every dead key the key
\* depends on
RECURSIVE DeadClosure(_)
DeadClosure(S) ==
  LET N == S \cup {d \in UNION {MapGet(dependency_graph.dependencies, x) :
                                  x \in S} :
                     d \in Dead \cup TransitivelyDead}
  IN IF N = S THEN S ELSE DeadClosure(N)

\* the direct-dead pass is over, a pass of the propagation is about to begin
\* or the run is over
BetweenPasses == pc \in {"detect_files", "transitive", "done"}

\* C22: on every graph a run builds, cyclic ones included, and for every key
\* k, count_dead_chain(k) is the number of distinct keys reachable from k
\* along dependencies edges through keys of dead_symbols or
\* transitively_dead: k counted once, no other non-dead key counted.
C22_ChainCount ==
  BetweenPasses =>
    \A k \in dependency_graph.all_symbols :
       /\ count_dead_chain(dependency_graph, k) = Cardinality(DeadClosure({k}))
       /\ DeadClosure({k}) \ {k} \subseteq Dead \cup TransitivelyDead

\* a run ends with a key whose chain holds two dead keys that depend on each
\* other, one of them two edges away from it
C22_Witness ==
  /\ pc = "done"
  /\ \E k \in dependency_graph.all_symbols :
        \E c \in DeadClosure({k}) \ {k}, d \in DeadClosure({k}) \ {k} :
           /\ c # d
           /\ c \in MapGet(dependency_graph.dependencies, d)
           /\ d \in MapGet(dependency_graph.dependencies, c)
           /\ d \notin MapGet(dependency_graph.dependencies, k)

AfterBuildGraph == ~InPool /\ pc # "build_graph"

\* the pairs <<g, F>>: the readable file g holds a namespace import whose
\* specifier names the project file F
NamespaceImports ==
  UNION {{<<g, i.from_path.target>> :
            i \in {x \in Source(g).imports :
                     /\ x.import_type = "namespace"
                     /\ x.from_path.target \in Files}} :
         g \in {h \in Files : Source(h).readable}}

\* C23: for a namespace import of project file F written in file g, the graph
\* holds an edge from g's pseudo-key to every export key of F, and after the
\* direct-dead pass no export declared in F is in dead_symbols.
C23_NamespaceUsesAll ==
  \A pr \in NamespaceImports :
     /\ AfterBuildGraph =>
          \A export \in file_cache[SrcPath(pr[2])].exports :
             Key(SrcPath(pr[2]), export.name)
               \in MapGet(dependency_graph.dependencies,
                          FileKey(SrcPath(pr[1])))
     /\ AfterMarkDead =>
          \A export \in {e \in file_cache[SrcPath(pr[2])].exports :
                           ~e.is_reexport} :
             Key(SrcPath(pr[2]), export.name) \notin Dead

\* the pairs <<g, i>>: the readable file g holds the aliased named import i
\* of a project file
AliasedImports ==
  UNION {{<<g, i>> :
            i \in {x \in Source(g).imports :
                     /\ x.import_type = "named"
                     /\ x.original_name # ""
                     /\ x.from_path.target \in Files}} :
         g \in {h \in Files : Source(h).readable}}

\* C24: for `import { x as y } from F` in file g, the import record keeps x
\* as original_name, whether the parser or _extract_imports makes it; the
\* graph holds the edge from g's pseudo-key to (F, x) and none to (F, y); the
\* usage set holds (F, x) and not (F, y); x of F is not marked dead, and an
\* export y of F that nothing else imports is.
C24_AliasTargetsOriginal ==
  \A pr \in AliasedImports :
     LET g == SrcPath(pr[1])
         F == SrcPath(pr[2].from_path.target)
         x == pr[2].original_name
         y == pr[2].name
     IN /\ ~InPool =>
              /\ \E r \in file_cache[g].imports :
                    r.name = y /\ r.original_name = x
              /\ \E r \in _extract_imports(Source(pr[1]), g) :
                    r.name = y /\ r.original_name = x
        /\ AfterBuildGraph =>
              /\ Key(F, x) \in MapGet(dependency_graph.dependencies, FileKey(g))
              /\ Key(F, y) \notin MapGet(dependency_graph.dependencies, FileKey(g))
        /\ AfterMarkDead =>
              /\ Key(F, x) \in imported_symbols
              /\ Key(F, y) \notin imported_symbols
              /\ Key(F, x) \notin Dead
              /\ Key(F, y) \in dependency_graph.exported_symbols
                    => Key(F, y) \in Dead

\* the same without the record of _extract_imports
C24_RunTargetsOriginal ==
  \A pr \in AliasedImports :
     LET g == SrcPath(pr[1])
         F == SrcPath(pr[2].from_path.target)
         x == pr[2].original_name
         y == pr[2].name
     IN /\ ~InPool =>
              \E r \in file_cache[g].imports : r.name = y /\ r.original_name = x
        /\ AfterBuildGraph =>
              /\ Key(F, x) \in MapGet(dependency_graph.dependencies, FileKey(g))
              /\ Key(F, y) \notin MapGet(dependency_graph.dependencies, FileKey(g))
        /\ AfterMarkDead =>
              /\ Key(F, x) \in imported_symbols
              /\ Key(F, y) \notin imported_symbols
              /\ Key(F, x) \notin Dead
              /\ Key(F, y) \in dependency_graph.exported_symbols
                    => Key(F, y) \in Dead

\* the exports some file declares itself, as the analyses hold them
DeclaredExportRecords ==
  {e \in UNION {fa.exports : fa \in Analyses} : ~e.is_reexport}

\* C25: after the direct-dead pass an export key is in dead_symbols only if
\* no import resolves to it, none of its re-export aliases is imported and
\* its name is not in the usage set of its own file; an export whose name is
\* in that set is not in dead_symbols, no issue names it, and its file is
\* not classified as a dead file.
C25_DeadOnlyIfUnused ==
  AfterMarkDead =>
    \A e \in DeclaredExportRecords :
       LET k == Key(e.file_path, e.name)
           used_internally == e.name \in file_cache[e.file_path].used_symbols
       IN /\ k \in Dead =>
                /\ k \notin imported_symbols
                /\ MapGet(_build_reexport_chains, k) \cap imported_symbols = {}
                /\ ~used_internally
          /\ used_internally =>
                /\ k \notin Dead
                /\ IssueCount(LAMBDA i : /\ i.file = e.file_path.id
                                         /\ i.symbol_name = e.name) = 0
                /\ e.file_path \notin dead_files

\* every key that occurs in the two maps, as a key or in a value
EdgeKeys ==
  DOMAIN dependency_graph.dependencies
    \cup UNION {dependency_graph.dependencies[k] :
                 k \in DOMAIN dependency_graph.dependencies}
    \cup DOMAIN dependency_graph.dependents
    \cup UNION {dependency_graph.dependents[k] :
                 k \in DOMAIN dependency_graph.dependents}

\* C26: whatever methods of DependencyGraph have been called, b is in
\* dependencies[a] exactly when a is in dependents[b], and every key of the
\* two maps, of exported_symbols and of transitively_dead is in all_symbols.
C26_GraphConsistent ==
  /\ \A a \in EdgeKeys, b \in EdgeKeys :
        b \in MapGet(dependency_graph.dependencies, a)
          <=> a \in MapGet(dependency_graph.dependents, b)
  /\ EdgeKeys \cup dependency_graph.exported_symbols \cup TransitivelyDead
        \subseteq dependency_graph.all_symbols

\* the caller has the graph back from find_transitive_dead_code with a key
\* promoted, an edge from a key to itself or two keys depending on each
\* other, and a dead key that no other call has named
C26_Witness ==
  /\ pc = "api"
  /\ TransitivelyDead # {}
  /\ \E e \in Edges(dependency_graph) :
        <<e[2], e[1]>> \in Edges(dependency_graph)
  /\ Dead \ dependency_graph.all_symbols # {}

\* the import records whose specifier names a file of the project
ProjectImports ==
  {imp \in UNION {fa.imports : fa \in Analyses} : imp.from_path.target \in Files}

\* C27: for an import whose specifier names project file F, relative or with
\* the root alias, _resolve_import_path returns the key under which F is in
\* file_cache and under which F's export keys are built; so an import of a
\* name F exports is an edge to that export key in the graph and puts the
\* key in the usage set of the direct-dead pass.
C27_CanonicalKeys ==
  AfterBuildGraph =>
    \A imp \in ProjectImports :
       LET F == imp.from_path.target
           resolved_path == _resolve_import_path(imp.from_path, imp.file_path)
       IN /\ resolved_path \in DOMAIN file_cache
          /\ resolved_path = SrcPath(F)
          /\ \A export \in file_cache[SrcPath(F)].exports :
                export.file_path = resolved_path
          /\ \A export \in file_cache[SrcPath(F)].exports :
                (imp.import_type # "namespace"
                   /\ export.name = ExportNameOf(imp)) =>
                  /\ Key(export.file_path, export.name)
                       \in MapGet(dependency_graph.dependencies,
                                  FileKey(imp.file_path))
                  /\ Key(export.file_path, export.name) \in imported_symbols

\* the export keys whose dependents are all pseudo-keys of files that declare
\* no export at all, and that have such a dependent
ExportlessOnlyKeys ==
  {k \in dependency_graph.exported_symbols :
     /\ MapGet(dependency_graph.dependents, k) # {}
     /\ \A d \in MapGet(dependency_graph.dependents, k) :
           /\ d[2] = "__file__"
           /\ d[1] \in DOMAIN file_cache
           /\ file_cache[d[1]].exports = {}}

TransitiveIssueFor(k) ==
  \E issue \in DOMAIN errors :
     /\ issue.kind = "transitive_export"
     /\ issue.file = k[1].id
     /\ issue.symbol_name = k[2]

DeclaredInFile(k) ==
  \E export \in file_cache[k[1]].exports :
     export.name = k[2] /\ ~export.is_reexport

PromoteOnce(T) ==
  LET g == [dependency_graph EXCEPT !.transitively_dead = T]
  IN T \cup {k \in g.all_symbols \ (g.dead_symbols \cup T) :
              /\ MapGet(g.dependents, k) # {}
              /\ all_dependents_dead(g, k)}

RECURSIVE PromoteAll(_)
PromoteAll(T) ==
  IF PromoteOnce(T) = T THEN T ELSE PromoteAll(PromoteOnce(T))

\* C29: for a given graph and dead_symbols, the set that
\* find_transitive_dead_code leaves in transitively_dead is the same for
\* every order in which a pass visits all_symbols, also when the tenth pass
\* has run: it is the set that visiting each key after its dependents gives.
C29_OrderIndependent ==
  AfterFind => TransitivelyDead = PromoteAll({})

SymbolIssues(f) ==
  IssueCount(LAMBDA i : SymbolLevel(i) /\ i.file = f)

FolderIssues(d) ==
  IssueCount(LAMBDA i : i.symbol_name = "__folder__" /\ i.dir = d)

====
